---- MODULE Spec2Model ----
(***************************************************************************)
(* Model of main.py of NeurIPScrawler: the listing extractor               *)
(* (get_paper_entries), the link-scan detail extractor (get_paper), the    *)
(* slugifier (slugify) and the scrape-and-store loop of __main__.          *)
(*                                                                         *)
(* Strings are sequences of one-character strings.  Characters outside     *)
(* ASCII are written by name (e_acute is U+00E9, comb_acute U+0301,        *)
(* jamo_L U+1100, jamo_V U+1161, syl_LV U+AC00).                           *)
(***************************************************************************)
EXTENDS Integers, Sequences, FiniteSets, TLC

\* None of an object-valued name; an optional string is a sequence of at most one
None == [none |-> TRUE]

(***************************************************************************)
(* Bounds of the model.                                                    *)
(***************************************************************************)
MaxLen == 3
MaxEntries == 2

(***************************************************************************)
(* Generic helpers on sequences.                                           *)
(***************************************************************************)
Range(s) == {s[k] : k \in 1..Len(s)}

SeqsUpTo(S, n) == UNION {[1..k -> S] : k \in 0..n}

Max(S) == CHOOSE x \in S : \A y \in S : y <= x

(***************************************************************************)
(* slugify (main.py 107-122) on a nine-character alphabet that has a       *)
(* member of every class the code distinguishes.                           *)
(***************************************************************************)
Chars == {"e", "-", " ", "!", "e_acute", "comb_acute", "jamo_L", "jamo_V", "syl_LV"}

AsciiChars == {"e", "-", " ", "!"}

\* re: \w on str is str.isalnum() or "_"; a combining mark (Mn) is not \w
WordChars == {"e", "e_acute", "jamo_L", "jamo_V", "syl_LV"}

\* re: \s and str.strip() whitespace
SpaceChars == {" "}

\* canonical decomposition of one character
Decompose(c) ==
    CASE c = "e_acute" -> <<"e", "comb_acute">>
      [] c = "syl_LV" -> <<"jamo_L", "jamo_V">>
      [] OTHER -> <<c>>

RECURSIVE NFKD(_)
NFKD(s) == IF s = <<>> THEN <<>> ELSE Decompose(Head(s)) \o NFKD(Tail(s))

\* canonical composition of a decomposed string, left to right
RECURSIVE Compose(_, _)
Compose(acc, s) ==
    IF s = <<>> THEN acc
    ELSE LET c == Head(s)
             n == Len(acc)
         IN  IF n > 0 /\ acc[n] = "e" /\ c = "comb_acute"
             THEN Compose(SubSeq(acc, 1, n - 1) \o <<"e_acute">>, Tail(s))
             ELSE IF n > 0 /\ acc[n] = "jamo_L" /\ c = "jamo_V"
             THEN Compose(SubSeq(acc, 1, n - 1) \o <<"syl_LV">>, Tail(s))
             ELSE Compose(Append(acc, c), Tail(s))

NFKC(s) == Compose(<<>>, NFKD(s))

\* .encode('ascii', 'ignore').decode('ascii')
EncodeAsciiIgnore(s) == SelectSeq(s, LAMBDA c : c \in AsciiChars)

\* re.sub(r'[^\w\s-]', '', string)
StripNonWord(s) == SelectSeq(s, LAMBDA c : c \in WordChars \cup SpaceChars \cup {"-"})

\* str.strip()
RECURSIVE LStrip(_)
LStrip(s) == IF s # <<>> /\ Head(s) \in SpaceChars THEN LStrip(Tail(s)) ELSE s

RECURSIVE RStrip(_)
RStrip(s) ==
    IF s # <<>> /\ s[Len(s)] \in SpaceChars THEN RStrip(SubSeq(s, 1, Len(s) - 1)) ELSE s

Strip(s) == RStrip(LStrip(s))

\* re.sub(r'[-\s]+', '-', string)
RECURSIVE CollapseRuns(_, _)
CollapseRuns(s, inRun) ==
    IF s = <<>> THEN <<>>
    ELSE IF Head(s) \in SpaceChars \cup {"-"}
         THEN (IF inRun THEN <<>> ELSE <<"-">>) \o CollapseRuns(Tail(s), TRUE)
         ELSE <<Head(s)>> \o CollapseRuns(Tail(s), FALSE)

\* mutant: the two substitutions are applied in the opposite order
slugify_swapped(str, allow_unicode) ==
    LET normalized == IF allow_unicode THEN NFKC(str)
                      ELSE EncodeAsciiIgnore(NFKD(str))
    IN  Strip(StripNonWord(CollapseRuns(normalized, FALSE)))

slugify(str, allow_unicode) ==
    LET normalized == IF allow_unicode THEN NFKC(str)
                      ELSE EncodeAsciiIgnore(NFKD(str))
    IN  CollapseRuns(Strip(StripNonWord(normalized)), FALSE)

(***************************************************************************)
(* URLs.  A Url is [scheme, host, path, query, fragment]; path = <<>> is   *)
(* urllib3's path None.  The characters of the hrefs below are lower-case  *)
(* unreserved ones, on which parse_url's normalisation changes nothing.    *)
(***************************************************************************)
MAIN_SITE == <<"papers.nips.cc">>

Url(scheme, host, path) ==
    [scheme |-> scheme, host |-> host, path |-> path, query |-> <<>>, fragment |-> <<>>]

\* index of the first element of s in S, Len(s) + 1 when there is none
FirstIn(s, S) ==
    IF \E k \in 1..Len(s) : s[k] \in S
    THEN CHOOSE k \in 1..Len(s) : s[k] \in S /\ \A j \in 1..(k - 1) : s[j] \notin S
    ELSE Len(s) + 1

\* index of the last element of s in S, 0 when there is none
LastIn(s, S) ==
    IF \E k \in 1..Len(s) : s[k] \in S
    THEN CHOOSE k \in 1..Len(s) : s[k] \in S /\ \A j \in (k + 1)..Len(s) : s[j] \notin S
    ELSE 0

\* parse_url of the string scheme "://" rest: the authority runs to the first
\* "/", "?" or "#", the path to the first "?" or "#", the query to the first "#"
parse_url(scheme, rest) ==
    LET a == FirstIn(rest, {"/", "?", "#"})
        afterHost == SubSeq(rest, a, Len(rest))
        p == FirstIn(afterHost, {"?", "#"})
        afterPath == SubSeq(afterHost, p, Len(afterHost))
        f == FirstIn(afterPath, {"#"})
    IN  [scheme |-> scheme,
         host |-> SubSeq(rest, 1, a - 1),
         path |-> SubSeq(afterHost, 1, p - 1),
         query |-> IF afterPath # <<>> /\ Head(afterPath) = "?"
                   THEN SubSeq(afterPath, 2, f - 1) ELSE <<>>,
         fragment |-> SubSeq(afterPath, f + 1, Len(afterPath))]

\* Url.url: the string the Url stands for, after "scheme://"
UrlString(u) ==
    u.host \o u.path
      \o (IF u.query = <<>> THEN <<>> ELSE <<"?">> \o u.query)
      \o (IF u.fragment = <<>> THEN <<>> ELSE <<"#">> \o u.fragment)

\* an f-string's rendering of a.get('href'): the attribute, or "None" without
\* one (the host that swallows it is kept in the case it is written in)
Format(href) == IF href = <<>> THEN <<"N", "o", "n", "e">> ELSE href[1]

\* os.path.splitext(p)[1]: from the last dot of the last component, unless that
\* component has only dots before it
splitext(p) ==
    LET sepIndex == LastIn(p, {"/"})
        dotIndex == LastIn(p, {"."})
    IN  IF dotIndex > sepIndex
           /\ \E k \in (sepIndex + 1)..(dotIndex - 1) : p[k] # "."
        THEN SubSeq(p, dotIndex, Len(p))
        ELSE <<>>

(***************************************************************************)
(* The site: what the web client can return for the listing page, a detail *)
(* page and a supplemental download.                                       *)
(***************************************************************************)
KnownLabels ==
    <<"AuthorFeedback »", "Bibtex »", "MetaReview »", "Paper »", "Review »", "Supplemental »">>

UnknownLabel == "Slides »"

Anchor(text, href) == [text |-> text, href |-> href]

\* the href the site gives each button
HrefOf(label) ==
    CASE label = "AuthorFeedback »" -> <<"/", "f", ".", "p", "d", "f">>
      [] label = "Bibtex »" -> <<"/", "b", ".", "b", "i", "b">>
      [] label = "MetaReview »" -> <<"/", "m", ".", "h", "t", "m", "l">>
      [] label = "Paper »" -> <<"/", "p", ".", "p", "d", "f">>
      [] label = "Review »" -> <<"/", "r", ".", "h", "t", "m", "l">>
      [] label = "Supplemental »" -> <<"/", "s", ".", "z", "i", "p">>
      [] OTHER -> <<"/", "x">>

\* hrefs of a supplemental button: an archive, a pdf, another extension, no
\* extension, a dot only in a directory name, a dot file, ".zip" only in the
\* query string, a relative href (the host swallows it) and no href attribute
SuppHrefs ==
    { <<<<"/", "s", ".", "z", "i", "p">>>>,
      <<<<"/", "s", ".", "p", "d", "f">>>>,
      <<<<"/", "s", ".", "t", "x", "t">>>>,
      <<<<"/", "s">>>>,
      <<<<"/", "d", ".", "d", "/", "s">>>>,
      <<<<"/", ".", "z", "i", "p">>>>,
      <<<<"/", "s", "?", "v", ".", "z", "i", "p">>>>,
      <<<<"s", ".", "z", "i", "p">>>>,
      <<>> }

AbstractTexts == {<<" ", "e", "<i>", "e", "</i>", " ">>}

\* s with a inserted so that it becomes element k
InsertAt(s, k, a) == SubSeq(s, 1, k - 1) \o <<a>> \o SubSeq(s, k, Len(s))

\* the buttons of the labels in S, in the order of KnownLabels
ButtonsOf(S, suppHref) ==
    LET all == [k \in 1..6 |->
                   Anchor(KnownLabels[k],
                          IF KnownLabels[k] = "Supplemental »" THEN suppHref
                          ELSE <<HrefOf(KnownLabels[k])>>)]
    IN  SelectSeq(all, LAMBDA a : a.text \in S)

Page(anchors, p8) == [anchors |-> anchors, p8 |-> p8]

Always == {"Bibtex »", "MetaReview »", "Paper »", "Review »"}

\* detail pages of the run: the four buttons every paper has, with or without
\* author feedback and supplemental material
PlainPages ==
    { Page(ButtonsOf(Always \cup opt, <<HrefOf("Supplemental »")>>), <<t>>) :
        opt \in SUBSET {"AuthorFeedback »"}, t \in AbstractTexts }
    \cup
    { Page(ButtonsOf(Always \cup opt \cup {"Supplemental »"}, h), <<t>>) :
        opt \in SUBSET {"AuthorFeedback »"}, h \in SuppHrefs, t \in AbstractTexts }

\* a button with an unknown label anywhere among the four or the six, and a
\* page without its eighth paragraph
OddPages ==
    UNION { { Page(InsertAt(pg.anchors, k, Anchor(UnknownLabel, <<HrefOf(UnknownLabel)>>)), pg.p8) :
                k \in 1..(Len(pg.anchors) + 1) } :
            pg \in { q \in PlainPages :
                        \A a \in Range(q.anchors) :
                            a.text = "Supplemental »" => a.href = <<HrefOf("Supplemental »")>> } }
    \cup { Page(ButtonsOf(Always, <<>>), <<>>) }

SitePages == PlainPages \cup OddPages

\* detail pages for the link scan alone: any subset of the six buttons, alone or
\* with one more button (a repeated label with another href or with none, or an
\* unknown label) anywhere among them
OtherHref == <<"/", "y">>

ScanPages ==
    LET base == { ButtonsOf(S, <<HrefOf("Supplemental »")>>) : S \in SUBSET Range(KnownLabels) }
        extra == { Anchor(l, h) : l \in Range(KnownLabels) \cup {UnknownLabel},
                                  h \in {<<OtherHref>>, <<>>} }
    IN  { Page(b, <<t>>) : b \in base, t \in AbstractTexts }
        \cup UNION { { Page(InsertAt(b, k, x), <<t>>) :
                          k \in 1..(Len(b) + 1), x \in extra, t \in AbstractTexts } :
                      b \in base }

\* the listing page: items with a title link and an author line, and items that
\* lack one of the two
\* titles with the slugs "e", "e-e" and ""; a listing may repeat a title
Titles == {<<"e", "!">>, <<"e", " ", "e">>, <<"!">>}

EntryHref == <<"/", "h">>

AuthorLine == <<"A", ",", " ", "B">>

Items ==
    { [a |-> <<Anchor(t, <<EntryHref>>)>>, i |-> <<AuthorLine>>] : t \in Titles }
    \cup { [a |-> <<>>, i |-> <<AuthorLine>>],
           [a |-> <<Anchor(<<"e">>, <<EntryHref>>)>>, i |-> <<>>] }

Listings == SeqsUpTo(Items, MaxEntries)

\* downloaded bytes, by what zipfile makes of them: not an archive at all, a
\* sound archive of two members, an archive whose second member fails its CRC
\* check, and one whose second member's deflate stream is damaged
Blob(name, members, fault, at) ==
    [name |-> name, members |-> members, fault |-> fault, at |-> at]

Members == <<<<"a">>, <<"b">>>>

Blobs ==
    { Blob("garbage", <<>>, "open", 0),
      Blob("archive", Members, "none", 0),
      Blob("bad crc", Members, "crc", 2),
      Blob("bad deflate", Members, "deflate", 2) }

EmptyBlob == Blob("empty", <<>>, "open", 0)

(***************************************************************************)
(* Listing extractor (main.py 18-30, 57-65).                               *)
(***************************************************************************)
\* str.split(', ')
RECURSIVE Split(_, _)
Split(s, cur) ==
    IF s = <<>> THEN <<cur>>
    ELSE IF Len(s) >= 2 /\ s[1] = "," /\ s[2] = " "
         THEN <<cur>> \o Split(SubSeq(s, 3, Len(s)), <<>>)
         ELSE Split(Tail(s), Append(cur, Head(s)))

\* a.get('href') as a Url's path: the attribute, or None
Href(a) == IF a.href = <<>> THEN <<>> ELSE a.href[1]

PaperEntry(path, title, authors) ==
    [url |-> Url("https", MAIN_SITE, path), title |-> title, authors |-> authors]

Raised(e) == [raised |-> TRUE, error |-> e]

\* the entries of a listing, or the AttributeError of an item without its nodes
get_paper_entries(listing) ==
    IF \E k \in 1..Len(listing) : listing[k].a = <<>> \/ listing[k].i = <<>>
    THEN Raised("AttributeError")
    ELSE [raised |-> FALSE,
          value |-> [k \in 1..Len(listing) |->
                       PaperEntry(Href(listing[k].a[1]), listing[k].a[1].text,
                                  Split(listing[k].i[1], <<>>))]]

(***************************************************************************)
(* Detail extractor (main.py 32-55, 68-104).                               *)
(***************************************************************************)
NoLinks ==
    [author_feedback_url |-> None, bibtex_url |-> None, meta_review_url |-> None,
     paper_url |-> None, review_url |-> None, supplemental_url |-> None]

\* mutant: the Paper and Review branches assign each other's name
SlotOf_swapped(text) ==
    CASE text = "AuthorFeedback »" -> "author_feedback_url"
      [] text = "Bibtex »" -> "bibtex_url"
      [] text = "MetaReview »" -> "meta_review_url"
      [] text = "Paper »" -> "review_url"
      [] text = "Review »" -> "paper_url"
      [] text = "Supplemental »" -> "supplemental_url"
      [] OTHER -> "else"

\* the if/elif chain of the scan: the slot a label is binned into
SlotOf(text) ==
    CASE text = "AuthorFeedback »" -> "author_feedback_url"
      [] text = "Bibtex »" -> "bibtex_url"
      [] text = "MetaReview »" -> "meta_review_url"
      [] text = "Paper »" -> "paper_url"
      [] text = "Review »" -> "review_url"
      [] text = "Supplemental »" -> "supplemental_url"
      [] OTHER -> "else"

\* mutant: the chain has no else branch, a button it does not know is passed over
RECURSIVE ScanAnchors_skip(_, _, _)
ScanAnchors_skip(anchors, url, links) ==
    IF anchors = <<>> THEN [raised |-> FALSE, value |-> links]
    ELSE LET a == Head(anchors)
         IN  IF SlotOf(a.text) = "else" THEN ScanAnchors_skip(Tail(anchors), url, links)
             ELSE ScanAnchors_skip(Tail(anchors), url,
                      [links EXCEPT ![SlotOf(a.text)] =
                          parse_url(url.scheme, url.host \o Format(a.href))])

\* the for loop over a.btn
RECURSIVE ScanAnchors(_, _, _)
ScanAnchors(anchors, url, links) ==
    IF anchors = <<>> THEN [raised |-> FALSE, value |-> links]
    ELSE LET a == Head(anchors)
         IN  IF SlotOf(a.text) = "else" THEN Raised("Exception")
             ELSE ScanAnchors(Tail(anchors), url,
                      [links EXCEPT ![SlotOf(a.text)] =
                          parse_url(url.scheme, url.host \o Format(a.href))])

\* BeautifulSoup(...).text of the abstract: the markup without its tags
Flatten(s) == SelectSeq(s, LAMBDA c : c \notin {"<i>", "</i>"})

get_paper(paper_site, paper_entry) ==
    LET scan == ScanAnchors(paper_site.anchors, paper_entry.url, NoLinks)
    IN  IF scan.raised THEN scan
        ELSE IF paper_site.p8 = <<>> THEN Raised("AttributeError")
        ELSE [raised |-> FALSE,
              value |-> [paper_entry |-> paper_entry,
                         abstract |-> Strip(Flatten(paper_site.p8[1])),
                         author_feedback_url |-> scan.value.author_feedback_url,
                         bibtex_url |-> scan.value.bibtex_url,
                         meta_review_url |-> scan.value.meta_review_url,
                         paper_url |-> scan.value.paper_url,
                         review_url |-> scan.value.review_url,
                         supplemental_url |-> scan.value.supplemental_url]]

(***************************************************************************)
(* The output tree.  A path is the sequence of names below out/<year>, a   *)
(* name a string as above; fs maps each path that exists to a directory or *)
(* to a file with its bytes.                                               *)
(***************************************************************************)
Dir == [type |-> "dir"]

File(bytes) == [type |-> "file", bytes |-> bytes]

\* what extractall leaves of one member
Member(complete) == [name |-> "member", complete |-> complete]

Put(f, path, v) == [q \in DOMAIN f \cup {path} |-> IF q = path THEN v ELSE f[q]]

\* Path.mkdir(parents=True, exist_ok=True); no input of this model puts a file
\* where a directory is made
MkdirP(f, path) ==
    [q \in DOMAIN f \cup {SubSeq(path, 1, k) : k \in 0..Len(path)} |->
        IF q \in DOMAIN f THEN f[q] ELSE Dir]

\* Path('out', str(year), slug): pathlib drops an empty component
HomeOf(slug) == IF slug = <<>> THEN <<>> ELSE <<slug>>

Pdf == <<".", "p", "d", "f">>

Zip == <<".", "z", "i", "p">>

\* the tree after extractall has copied members 1..n whole and, when partial,
\* has begun member n + 1
RECURSIVE Extracted(_, _, _, _, _)
Extracted(f, dir, members, n, partial) ==
    IF n = 0
    THEN (IF partial THEN Put(f, Append(dir, members[1]), File(Member(FALSE))) ELSE f)
    ELSE Extracted(Put(f, Append(dir, members[1]), File(Member(TRUE))),
                   dir, Tail(members), n - 1, partial)

(***************************************************************************)
(* State of a run of __main__ (main.py 125-237).                           *)
(***************************************************************************)
VARIABLES
    pc,                              \* position in the script
    paper_entries,                   \* the list the loop iterates over
    idx,                             \* iterations of the loop that have ended
    paper_site,                      \* get_paper's parsed detail page
    paper,                           \* the Paper of the current iteration
    paper_home,                      \* its directory
    ext,                             \* extension of its supplemental URL
    fs,                              \* the tree below out/<year>
    no_author_feedback,
    no_supplemental_material,
    supplemental_material_zipped,
    supplemental_material_pdf,
    out,                             \* the lines printed so far
    error,                           \* the exception that ended the run, "" if none
    papers,                          \* every Paper get_paper has returned
    string,                          \* slugify's argument
    allow_unicode,
    slug,                            \* slugify(string), once computed
    reslug                           \* slugify(slug), once computed

counters ==
    <<no_author_feedback, no_supplemental_material,
      supplemental_material_zipped, supplemental_material_pdf>>

slugvars == <<string, allow_unicode, slug, reslug>>

vars ==
    <<pc, paper_entries, idx, paper_site, paper, paper_home, ext, fs, counters,
      out, error, papers, slugvars>>

Line(text, n) == [text |-> text, n |-> n]

\* an exception nobody catches ends the run
Abort(e) == pc' = "aborted" /\ error' = e

paper_entry == paper_entries[idx + 1]

supplemental == Append(paper_home, <<"Supplemental">> \o ext)

extraction_path == Append(paper_home, <<"Supplemental">>)

Init ==
    /\ pc = "entries"
    /\ paper_entries = <<>>
    /\ idx = 0
    /\ paper_site = None
    /\ paper = None
    /\ paper_home = <<>>
    /\ ext = <<>>
    /\ fs = <<>>
    /\ no_author_feedback = 0
    /\ no_supplemental_material = 0
    /\ supplemental_material_zipped = 0
    /\ supplemental_material_pdf = 0
    /\ out = <<>>
    /\ error = ""
    /\ papers = <<>>
    /\ string = <<>>
    /\ allow_unicode = FALSE
    /\ slug = <<>>
    /\ reslug = <<>>

\* line 158, the call: the listing page is fetched and parsed, or fails
GetPaperEntries ==
    /\ pc = "entries"
    /\ \/ Abort("ConnectionError") /\ UNCHANGED paper_entries
       \/ \E listing \in Listings :
             LET r == get_paper_entries(listing)
             IN  IF r.raised THEN Abort(r.error) /\ UNCHANGED paper_entries
                 ELSE pc' = "loop" /\ paper_entries' = r.value /\ UNCHANGED error
    /\ UNCHANGED <<idx, paper_site, paper, paper_home, ext, fs, counters, out, papers, slugvars>>

\* lines 158-160 and 69: the next entry is announced and its page fetched
NavigateDetail ==
    /\ pc = "loop"
    /\ idx < Len(paper_entries)
    /\ out' = Append(out, Line("Processing: ", idx + 1))
    /\ \/ Abort("ConnectionError") /\ UNCHANGED paper_site
       \/ \E page \in SitePages : pc' = "scan" /\ paper_site' = page /\ UNCHANGED error
    /\ UNCHANGED <<paper_entries, idx, paper, paper_home, ext, fs, counters, papers, slugvars>>

\* lines 70-104 and 160: the buttons are binned and the Paper is returned
ScanLinks ==
    /\ pc = "scan"
    /\ LET r == get_paper(paper_site, paper_entry)
       IN  IF r.raised THEN Abort(r.error) /\ UNCHANGED <<paper, papers, paper_site>>
           ELSE /\ pc' = "mkdir"
                /\ paper' = r.value
                /\ papers' = Append(papers, r.value)
                /\ paper_site' = None
                /\ UNCHANGED error
    /\ UNCHANGED <<paper_entries, idx, paper_home, ext, fs, counters, out, slugvars>>

\* lines 161-162
MakeHome ==
    /\ pc = "mkdir"
    /\ paper_home' = HomeOf(slugify(paper_entry.title, FALSE))
    /\ fs' = MkdirP(fs, paper_home')
    /\ pc' = "supp"
    /\ UNCHANGED <<paper_entries, idx, paper_site, paper, ext, counters, out, error, papers, slugvars>>

\* mutant: the branch for no supplemental material lacks its continue
CheckSupplemental_nocontinue ==
    /\ pc = "supp"
    /\ IF paper.supplemental_url = None
       THEN /\ no_supplemental_material' = no_supplemental_material + 1
            /\ Abort("AttributeError")
            /\ out' = Append(out, Line("Downloading Supplemental Material", 0))
            /\ UNCHANGED <<ext, idx>>
       ELSE /\ out' = Append(out, Line("Downloading Supplemental Material", 0))
            /\ UNCHANGED <<no_supplemental_material, idx>>
            /\ IF paper.supplemental_url.path = <<>>
               THEN Abort("TypeError") /\ UNCHANGED ext
               ELSE /\ ext' = splitext(paper.supplemental_url.path)
                    /\ IF ext' \in {Pdf, Zip}
                       THEN pc' = "download" /\ UNCHANGED error
                       ELSE Abort("AssertionError")
    /\ UNCHANGED <<paper_entries, paper_site, paper, paper_home, fs, no_author_feedback,
                   supplemental_material_zipped, supplemental_material_pdf, papers, slugvars>>

\* mutant: the extension is not asserted
CheckSupplemental_noassert ==
    /\ pc = "supp"
    /\ IF paper.supplemental_url = None
       THEN /\ no_supplemental_material' = no_supplemental_material + 1
            /\ idx' = idx + 1
            /\ pc' = "loop"
            /\ UNCHANGED <<ext, out, error>>
       ELSE /\ out' = Append(out, Line("Downloading Supplemental Material", 0))
            /\ UNCHANGED <<no_supplemental_material, idx>>
            /\ IF paper.supplemental_url.path = <<>>
               THEN Abort("TypeError") /\ UNCHANGED ext
               ELSE /\ ext' = splitext(paper.supplemental_url.path)
                    /\ pc' = "download" /\ UNCHANGED error
    /\ UNCHANGED <<paper_entries, paper_site, paper, paper_home, fs, no_author_feedback,
                   supplemental_material_zipped, supplemental_material_pdf, papers, slugvars>>

\* lines 212-217
CheckSupplemental ==
    /\ pc = "supp"
    /\ IF paper.supplemental_url = None
       THEN /\ no_supplemental_material' = no_supplemental_material + 1
            /\ idx' = idx + 1
            /\ pc' = "loop"
            /\ UNCHANGED <<ext, out, error>>
       ELSE /\ out' = Append(out, Line("Downloading Supplemental Material", 0))
            /\ UNCHANGED <<no_supplemental_material, idx>>
            /\ IF paper.supplemental_url.path = <<>>
               THEN Abort("TypeError") /\ UNCHANGED ext
               ELSE /\ ext' = splitext(paper.supplemental_url.path)
                    /\ IF ext' \in {Pdf, Zip}
                       THEN pc' = "download" /\ UNCHANGED error
                       ELSE Abort("AssertionError")
    /\ UNCHANGED <<paper_entries, paper_site, paper, paper_home, fs, no_author_feedback,
                   supplemental_material_zipped, supplemental_material_pdf, papers, slugvars>>

\* lines 218-220: the file is opened, which empties it, before the download
Download ==
    /\ pc = "download"
    /\ \/ fs' = Put(fs, supplemental, File(EmptyBlob)) /\ Abort("ConnectionError")
       \/ \E content \in Blobs :
             fs' = Put(fs, supplemental, File(content)) /\ pc' = "extract" /\ UNCHANGED error
    /\ UNCHANGED <<paper_entries, idx, paper_site, paper, paper_home, ext, counters, out,
                   papers, slugvars>>

\* mutant: the archive is counted after extractall, inside the try
Extract_countafter ==
    /\ pc = "extract"
    /\ IF ext = Zip
       THEN LET archive == fs[supplemental].bytes
                made == MkdirP(fs, extraction_path)
                unzipping == Append(out, Line("        Unzipping...", 0))
                warned == Append(unzipping,
                                 Line("        !!! Failed to unzip faulty zip file !!!!", 0))
            IN  /\ supplemental_material_zipped' =
                       IF archive.fault = "none" THEN supplemental_material_zipped + 1
                       ELSE supplemental_material_zipped
                /\ UNCHANGED supplemental_material_pdf
                /\ CASE archive.fault = "open" ->
                          /\ fs' = made /\ out' = warned
                          /\ idx' = idx + 1 /\ pc' = "loop" /\ UNCHANGED error
                     [] archive.fault = "none" ->
                          /\ fs' = Extracted(made, extraction_path, archive.members,
                                             Len(archive.members), FALSE)
                          /\ out' = unzipping
                          /\ idx' = idx + 1 /\ pc' = "loop" /\ UNCHANGED error
                     [] archive.fault = "crc" ->
                          /\ fs' = Extracted(made, extraction_path, archive.members,
                                             archive.at - 1, TRUE)
                          /\ out' = warned
                          /\ idx' = idx + 1 /\ pc' = "loop" /\ UNCHANGED error
                     [] archive.fault = "deflate" ->
                          /\ fs' = Extracted(made, extraction_path, archive.members,
                                             archive.at - 1, TRUE)
                          /\ out' = unzipping
                          /\ Abort("zlib.error") /\ UNCHANGED idx
       ELSE /\ supplemental_material_pdf' = supplemental_material_pdf + 1
            /\ idx' = idx + 1
            /\ pc' = "loop"
            /\ UNCHANGED <<supplemental_material_zipped, fs, out, error>>
    /\ UNCHANGED <<paper_entries, paper_site, paper, paper_home, ext, no_author_feedback,
                   no_supplemental_material, papers, slugvars>>

\* lines 221-233: ZipFile raises BadZipFile when it opens no archive and when a
\* member fails its check; a damaged deflate stream raises zlib.error instead
Extract ==
    /\ pc = "extract"
    /\ IF ext = Zip
       THEN LET archive == fs[supplemental].bytes
                made == MkdirP(fs, extraction_path)
                unzipping == Append(out, Line("        Unzipping...", 0))
                warned == Append(unzipping,
                                 Line("        !!! Failed to unzip faulty zip file !!!!", 0))
            IN  /\ supplemental_material_zipped' = supplemental_material_zipped + 1
                /\ UNCHANGED supplemental_material_pdf
                /\ CASE archive.fault = "open" ->
                          /\ fs' = made /\ out' = warned
                          /\ idx' = idx + 1 /\ pc' = "loop" /\ UNCHANGED error
                     [] archive.fault = "none" ->
                          /\ fs' = Extracted(made, extraction_path, archive.members,
                                             Len(archive.members), FALSE)
                          /\ out' = unzipping
                          /\ idx' = idx + 1 /\ pc' = "loop" /\ UNCHANGED error
                     [] archive.fault = "crc" ->
                          /\ fs' = Extracted(made, extraction_path, archive.members,
                                             archive.at - 1, TRUE)
                          /\ out' = warned
                          /\ idx' = idx + 1 /\ pc' = "loop" /\ UNCHANGED error
                     [] archive.fault = "deflate" ->
                          /\ fs' = Extracted(made, extraction_path, archive.members,
                                             archive.at - 1, TRUE)
                          /\ out' = unzipping
                          /\ Abort("zlib.error") /\ UNCHANGED idx
       ELSE /\ supplemental_material_pdf' = supplemental_material_pdf + 1
            /\ idx' = idx + 1
            /\ pc' = "loop"
            /\ UNCHANGED <<supplemental_material_zipped, fs, out, error>>
    /\ UNCHANGED <<paper_entries, paper_site, paper, paper_home, ext, no_author_feedback,
                   no_supplemental_material, papers, slugvars>>

\* mutant: the summary is printed in a finally clause, also after an error
Summary_finally ==
    /\ \/ pc = "loop" /\ idx = Len(paper_entries)
       \/ pc = "aborted"
    /\ out' = out \o << Line("Papers without author feedback: ", no_author_feedback),
                        Line("Papers without supplemental material: ", no_supplemental_material),
                        Line("Papers with zipped supplemental material: ",
                             supplemental_material_zipped),
                        Line("Papers with pdfs as supplemental material: ",
                             supplemental_material_pdf) >>
    /\ pc' = "done"
    /\ UNCHANGED <<paper_entries, idx, paper_site, paper, paper_home, ext, fs, counters,
                   error, papers, slugvars>>

\* lines 234-237
Summary ==
    /\ pc = "loop"
    /\ idx = Len(paper_entries)
    /\ out' = out \o << Line("Papers without author feedback: ", no_author_feedback),
                        Line("Papers without supplemental material: ", no_supplemental_material),
                        Line("Papers with zipped supplemental material: ",
                             supplemental_material_zipped),
                        Line("Papers with pdfs as supplemental material: ",
                             supplemental_material_pdf) >>
    /\ pc' = "done"
    /\ UNCHANGED <<paper_entries, idx, paper_site, paper, paper_home, ext, fs, counters,
                   error, papers, slugvars>>

Next ==
    \/ GetPaperEntries
    \/ NavigateDetail
    \/ ScanLinks
    \/ MakeHome
    \/ CheckSupplemental
    \/ Download
    \/ Extract
    \/ Summary

Spec == Init /\ [][Next]_vars

(***************************************************************************)
(* The link scan on its own: get_paper on any page of ScanPages, for the   *)
(* first entry of a listing of one.                                        *)
(***************************************************************************)
ScanInit ==
    /\ pc = "scan"
    /\ paper_entries = <<PaperEntry(EntryHref, <<"e", "!">>, Split(AuthorLine, <<>>))>>
    /\ idx = 0
    /\ paper_site \in ScanPages
    /\ paper = None
    /\ paper_home = <<>>
    /\ ext = <<>>
    /\ fs = <<>>
    /\ no_author_feedback = 0
    /\ no_supplemental_material = 0
    /\ supplemental_material_zipped = 0
    /\ supplemental_material_pdf = 0
    /\ out = <<Line("Processing: ", 1)>>
    /\ error = ""
    /\ papers = <<>>
    /\ string = <<>>
    /\ allow_unicode = FALSE
    /\ slug = <<>>
    /\ reslug = <<>>

ScanNext == ScanLinks

ScanSpec == ScanInit /\ [][ScanNext]_vars

(***************************************************************************)
(* slugify on its own: every string of at most MaxLen characters, slugged  *)
(* and slugged again with the same allow_unicode.                          *)
(***************************************************************************)
SlugInit ==
    /\ pc = "slugify"
    /\ paper_entries = <<>>
    /\ idx = 0
    /\ paper_site = None
    /\ paper = None
    /\ paper_home = <<>>
    /\ ext = <<>>
    /\ fs = <<>>
    /\ no_author_feedback = 0
    /\ no_supplemental_material = 0
    /\ supplemental_material_zipped = 0
    /\ supplemental_material_pdf = 0
    /\ out = <<>>
    /\ error = ""
    /\ papers = <<>>
    /\ string \in SeqsUpTo(Chars, MaxLen)
    /\ allow_unicode \in BOOLEAN
    /\ slug = <<>>
    /\ reslug = <<>>

mainvars ==
    <<pc, paper_entries, idx, paper_site, paper, paper_home, ext, fs, counters,
      out, error, papers>>

SlugifyOnce ==
    /\ pc = "slugify"
    /\ slug = <<>>
    /\ slug' = <<slugify(string, allow_unicode)>>
    /\ UNCHANGED <<mainvars, string, allow_unicode, reslug>>

SlugifyAgain ==
    /\ pc = "slugify"
    /\ slug # <<>>
    /\ reslug = <<>>
    /\ reslug' = <<slugify(slug[1], allow_unicode)>>
    /\ UNCHANGED <<mainvars, string, allow_unicode, slug>>

SlugNext == SlugifyOnce \/ SlugifyAgain

SlugSpec == SlugInit /\ [][SlugNext]_vars

(***************************************************************************)
(* Vocabulary of the properties.                                           *)
(***************************************************************************)
EndsWith(s, suffix) ==
    Len(s) >= Len(suffix) /\ SubSeq(s, Len(s) - Len(suffix) + 1, Len(s)) = suffix

\* path lies strictly below dir
Under(path, dir) == Len(path) > Len(dir) /\ SubSeq(path, 1, Len(dir)) = dir

\* the Supplemental.* files and Supplemental/ trees of f
SuppPaths(f) ==
    {q \in DOMAIN f : \E k \in 1..Len(q) : q[k] # <<>> /\ q[k][1] = "Supplemental"}

SlotNames ==
    <<"author_feedback_url", "bibtex_url", "meta_review_url", "paper_url", "review_url",
      "supplemental_url">>

Warning == "        !!! Failed to unzip faulty zip file !!!!"

SlugOf(k) == slugify(paper_entries[k].title, FALSE)

DistinctSlugs ==
    \A j, k \in 1..Len(paper_entries) : j # k => SlugOf(j) # SlugOf(k)

ProcessingLines == SelectSeq(out, LAMBDA l : l.text = "Processing: ")

SummaryPrinted ==
    \E k \in 1..Len(out) : out[k].text = "Papers without author feedback: "

\* once an exception has ended the run nothing more happens
AbortIsFinal == pc # "aborted"

\* C1: for every paper whose supplemental URL ends in ".zip" and whose downloaded
\* bytes are not a valid archive, processing raises no error: Supplemental.zip
\* keeps the downloaded bytes, nothing is extracted into Supplemental/, the
\* warning is printed and the run goes on with the next entry.
C1_CorruptArchiveTolerated ==
    [][ ( /\ pc = "extract"
          /\ EndsWith(UrlString(paper.supplemental_url), Zip)
          /\ fs[supplemental].bytes.fault # "none" )
        => ( /\ pc' = "loop"
             /\ error' = ""
             /\ idx' = idx + 1
             /\ supplemental \in DOMAIN fs'
             /\ fs'[supplemental] = fs[supplemental]
             /\ {q \in DOMAIN fs' : Under(q, extraction_path)}
                  = {q \in DOMAIN fs : Under(q, extraction_path)}
             /\ out'[Len(out')].text = Warning ) ]_vars

\* C2: for a paper without a supplemental link, processing ends without error,
\* no Supplemental.* file and no Supplemental/ directory is written, and the
\* "no supplemental material" counter grows by exactly one while the zip and
\* pdf counters stay as they are.
C2_NoSupplemental ==
    [][ ( /\ pc \in {"mkdir", "supp"}
          /\ paper.supplemental_url = None )
        => ( /\ pc' = (IF pc = "mkdir" THEN "supp" ELSE "loop")
             /\ error' = ""
             /\ SuppPaths(fs') = SuppPaths(fs)
             /\ \A q \in SuppPaths(fs) : fs'[q] = fs[q]
             /\ no_supplemental_material' =
                  no_supplemental_material + (IF pc = "supp" THEN 1 ELSE 0)
             /\ idx' = idx + (IF pc = "supp" THEN 1 ELSE 0)
             /\ supplemental_material_zipped' = supplemental_material_zipped
             /\ supplemental_material_pdf' = supplemental_material_pdf ) ]_vars

C2_Witness ==
    /\ pc = "loop"
    /\ idx = 1
    /\ papers[1].supplemental_url = None
    /\ no_supplemental_material = 1
    /\ supplemental_material_zipped = 0
    /\ supplemental_material_pdf = 0
    /\ SuppPaths(fs) = {}
    /\ <<SlugOf(1)>> \in DOMAIN fs

\* C3: a button whose label is none of the six known ones makes get_paper
\* raise, wherever the button stands and whatever known buttons stand with it;
\* no Paper is returned and the run ends there, before a directory or a file
\* is made for the paper.
C3_UnknownLabelFatal ==
    [][ /\ AbortIsFinal
        /\ ( /\ pc = "scan"
              /\ \E k \in 1..Len(paper_site.anchors) :
                    paper_site.anchors[k].text \notin Range(KnownLabels) )
           => ( /\ pc' = "aborted"
                /\ error' = "Exception"
                /\ paper' = paper
                /\ papers' = papers
                /\ fs' = fs ) ]_vars

C3_Witness ==
    /\ pc = "aborted"
    /\ error = "Exception"
    /\ idx = 1
    /\ Len(paper_site.anchors) = 7
    /\ paper_site.anchors[4].text = UnknownLabel
    /\ Len(papers) = 1
    /\ <<SlugOf(1)>> \in DOMAIN fs
    /\ <<SlugOf(2)>> \notin DOMAIN fs

\* C4: on a page whose buttons all carry known labels, get_paper fills the slot
\* of a kind exactly when a button with that kind's label is there, and a
\* filled slot is the entry's scheme and host followed by the href of the last
\* button with that label.
C4_SlotsFollowButtons ==
    [][ ( /\ pc = "scan"
          /\ paper_site.p8 # <<>>
          /\ \A k \in 1..Len(paper_site.anchors) :
                paper_site.anchors[k].text \in Range(KnownLabels) )
        => ( /\ pc' = "mkdir"
             /\ \A j \in 1..6 :
                  LET at == {k \in 1..Len(paper_site.anchors) :
                               paper_site.anchors[k].text = KnownLabels[j]}
                      link == paper'[SlotNames[j]]
                  IN  IF at = {} THEN link = None
                      ELSE /\ link # None
                           /\ link.scheme = paper_entry.url.scheme
                           /\ paper_site.anchors[Max(at)].href # <<>> =>
                                UrlString(link) =
                                  paper_entry.url.host \o paper_site.anchors[Max(at)].href[1] )
      ]_vars

C4_Witness ==
    /\ pc = "mkdir"
    /\ \A j \in 1..6 : paper[SlotNames[j]] # None
    /\ UrlString(paper.paper_url) = MAIN_SITE \o HrefOf("Paper »")
    /\ UrlString(paper.review_url) = MAIN_SITE \o OtherHref

\* C5: when a run completes, the reported "papers without author feedback"
\* counter is the number of processed papers without an author-feedback link.
C5_FeedbackCounted ==
    pc = "done" =>
        /\ no_author_feedback =
             Cardinality({k \in 1..Len(papers) : papers[k].author_feedback_url = None})
        /\ out[Len(out) - 3].n = no_author_feedback

\* C6: a run that completes over n entries with pairwise distinct slugs leaves
\* exactly n directories under out/<year>/, named by the slugs, each holding
\* Authors.txt, Bibtex.bib, MetaReview.html, Paper.pdf and Review.html.
C6_FiveFilesPerPaper ==
    (pc = "done" /\ DistinctSlugs) =>
        LET dirs == {q \in DOMAIN fs : Len(q) = 1 /\ fs[q] = Dir}
        IN  /\ dirs = {<<SlugOf(k)>> : k \in 1..Len(paper_entries)}
            /\ Cardinality(dirs) = Len(paper_entries)
            /\ \A d \in dirs :
                 \A name \in {<<"Authors.txt">>, <<"Bibtex.bib">>, <<"MetaReview.html">>,
                               <<"Paper.pdf">>, <<"Review.html">>} :
                    Append(d, name) \in DOMAIN fs /\ fs[Append(d, name)].type = "file"

\* C7, as claimed: slugify(slugify(s)) = slugify(s) for every string s and both
\* values of allow_unicode.
C7_Idempotent == reslug # <<>> => reslug = slug

\* C7, amended: slugify(slugify(s)) = slugify(s) for every s when allow_unicode
\* is false, and when it is true for every s whose slug NFKC leaves unchanged.
C7_IdempotentNormalized ==
    (reslug # <<>> /\ (~allow_unicode \/ NFKC(slug[1]) = slug[1])) => reslug = slug

C7_Witness ==
    /\ reslug # <<>>
    /\ ~allow_unicode
    /\ string = <<" ", "e_acute", "!">>
    /\ slug = <<<<"e">>>>
    /\ reslug = slug

\* C8: a supplemental URL whose path ends neither in ".pdf" nor in ".zip" ends
\* the run with a fatal error before any Supplemental file is written for the
\* paper and before the zip or the pdf counter changes.
C8_ExtensionFatal ==
    [][ /\ AbortIsFinal
        /\ ( /\ pc = "supp"
              /\ paper.supplemental_url # None
              /\ ~EndsWith(paper.supplemental_url.path, Pdf)
              /\ ~EndsWith(paper.supplemental_url.path, Zip) )
           => ( /\ pc' = "aborted"
                /\ error' = (IF paper.supplemental_url.path = <<>> THEN "TypeError"
                              ELSE "AssertionError")
                /\ fs' = fs
                /\ supplemental_material_zipped' = supplemental_material_zipped
                /\ supplemental_material_pdf' = supplemental_material_pdf ) ]_vars

C8_Witness ==
    /\ pc = "aborted"
    /\ error = "AssertionError"
    /\ ext = <<".", "t", "x", "t">>
    /\ paper_home \in DOMAIN fs
    /\ SuppPaths(fs) = {}
    /\ supplemental_material_zipped = 0
    /\ supplemental_material_pdf = 0

C10_CountersPartition ==
    pc \in {"loop", "done"} =>
        LET none == {k \in 1..Len(papers) : papers[k].supplemental_url = None}
            zips == {k \in 1..Len(papers) \ none :
                       EndsWith(papers[k].supplemental_url.path, Zip)}
            pdfs == {k \in 1..Len(papers) \ none :
                       EndsWith(papers[k].supplemental_url.path, Pdf)}
        IN  /\ Len(papers) = idx
            /\ no_supplemental_material = Cardinality(none)
            /\ supplemental_material_zipped = Cardinality(zips)
            /\ supplemental_material_pdf = Cardinality(pdfs)
            /\ no_supplemental_material + supplemental_material_zipped
                 + supplemental_material_pdf = idx
            /\ pc = "done" =>
                 /\ out[Len(out) - 2].n = no_supplemental_material
                 /\ out[Len(out) - 1].n = supplemental_material_zipped
                 /\ out[Len(out)].n = supplemental_material_pdf

C10_Witness ==
    /\ pc = "done"
    /\ idx = 2
    /\ no_supplemental_material = 1
    /\ supplemental_material_zipped = 1
    /\ \E q \in DOMAIN fs :
          /\ q # <<>>
          /\ q[Len(q)] = <<"Supplemental">> \o Zip
          /\ fs[q].bytes.name = "garbage"
    /\ \E k \in 1..Len(out) : out[k].text = Warning

====
